---------------------------- MODULE Spec2Model ----------------------------
(***************************************************************************)
(* Teleoperation bridge (VSSS-Joystick): the two programs keyboard.py      *)
(* (key variant, class KeyboardControl) and main.py (axis variant, class   *)
(* JoystickControl).  One behaviour is one run of one of the two programs  *)
(* from the start of its __main__ block to the end of the process.         *)
(*                                                                         *)
(* Velocities and axis readings are Python floats; they are represented    *)
(* in hundredths (1.0 is 100, 0.1 is 10, 0.05 is 5).  All the values the   *)
(* model uses are multiples of 0.05, and a product with MAX_SPEED is       *)
(* divided by 100 to stay in hundredths.                                   *)
(***************************************************************************)
EXTENDS Integers, Sequences, FiniteSets

VARIABLES
    variant,              \* which program runs: "key" (keyboard.py) or "axis" (main.py)
    pc,                   \* position of the single thread of control
    ser,                  \* the serial channel self.ser: "none", "open", "closed"
    robot_id,             \* self.robot_id
    forward, backward, left, right,   \* KeyboardControl intents
    vl, vr,               \* self.vl / self.vr (key), locals vl / vr (axis), in hundredths
    last_x_button_state,  \* JoystickControl.last_x_button_state
    x_button_state,       \* JoystickControl.process_input local: the button sample of this tick
    remaining,            \* events of the batch returned by pygame.event.get() not yet iterated
    rawY, rawX,           \* the two raw axis readings of this tick (axis variant)
    prevSample,           \* history: the button sample of the previous tick
    sent,                 \* history: the frames handed to ser.write since this tick began
    lastWriteOk,          \* history: whether the last ser.write returned normally
    prevWriteOk,          \* history: whether the ser.write before the last one returned normally
    lastPrint,            \* history: what send_data printed last: "none", "sent", "error"
    triggers,             \* history: number of address-cycle triggers observed
    closeCalls,           \* history: number of ser.close() calls
    closeOnClosed,        \* history: ser.close() was called on a channel that was not open
    exitPath,             \* history: which way the program left (or is leaving)
    intAt,                \* history: the position at which the (first) interrupt arrived
    quitDelivered,        \* history: the input backend has delivered a quit signal
    lastPress,            \* history, key variant: for each intent (forward, backward, left,
                          \*   right), whether the most recent press or release handled on
                          \*   one of its two keys was a press (FALSE when there was none)
    pressed,              \* history, key variant: the intents for which a press was handled
                          \*   in the current tick
    resolves,             \* history: number of find_stm32_port() calls
    devices,              \* resolver: the tty devices in the order pyudev enumerates them
    port,                 \* resolver: index of the device whose node find_stm32_port
                          \*   returned, 0 if it raised, -1 before the call
    byteorder,            \* codec: the native byte order of the host ("little" or "big")
    frameIn,              \* codec: the arguments (robot_id, vl, vr) of struct.pack
    wire,                 \* codec: the bytes struct.pack returned, <<>> before the call
    pending,              \* the exception in flight (raised in the constructor and not yet
                          \*   out of __main__, or carried through the finally block),
                          \*   "none" if none
    uncaught              \* the exception that ends the process, "none" if there is none

vars == << variant, pc, ser, robot_id, forward, backward, left, right, vl, vr,
           last_x_button_state, x_button_state, remaining, rawY, rawX,
           prevSample, sent, lastWriteOk, prevWriteOk, lastPrint, triggers, closeCalls, closeOnClosed, exitPath, intAt,
           quitDelivered, lastPress, pressed, resolves, devices, port, byteorder, frameIn, wire,
           pending, uncaught >>

(***************************************************************************)
(* Bounds of the model.                                                    *)
(***************************************************************************)
MaxTriggers == 5  \* address-cycle triggers per run
MaxBatch == 2     \* events returned by one pygame.event.get()
MaxDevices == 3   \* tty devices pyudev enumerates

(***************************************************************************)
(* Program constants.                                                      *)
(***************************************************************************)
MAX_SPEED == 100  \* self.MAX_SPEED = 1.0, in hundredths
DEAD_ZONE == 10   \* the literal 0.1 of the dead zone, in hundredths

Variants == {"key", "axis"}

\* raw axis readings in [-1, 1] the joystick can deliver (hundredths)
AxisSamples == {-100, -50, -10, -5, 0, 5, 10, 50, 100}

Keys == {"K_ESCAPE", "K_UP", "K_DOWN", "K_LEFT", "K_RIGHT",
         "K_w", "K_s", "K_a", "K_d", "K_x", "K_OTHER"}

\* the events pygame.event.get() can deliver
Events == {[type |-> "QUIT", key |-> "NONE"], [type |-> "OTHER", key |-> "NONE"]}
          \cup [type : {"KEYDOWN", "KEYUP"}, key : Keys]

\* a tty device as find_stm32_port sees it: its ID_VENDOR_ID and ID_MODEL_ID
\* properties ("absent" when the device has no such property); its device_node
\* is identified with its position in the enumeration
DeviceKinds == [vendor : {"absent", "0483", "1a86"}, model : {"absent", "5740", "7523"}]

DeviceLists == UNION {[1..n -> DeviceKinds] : n \in 0..MaxDevices}

Abs(v) == IF v < 0 THEN -v ELSE v

(***************************************************************************)
(* Pure functions of the two programs.                                     *)
(***************************************************************************)

\* find_stm32_port of main.py: the for loop from entry i on; 0 stands for the
\* RuntimeError raised after the loop
RECURSIVE ScanDevices(_, _)
ScanDevices(devs, i) ==
    IF i > Len(devs) THEN 0
    ELSE IF devs[i].vendor # "absent" /\ devs[i].model # "absent"
         THEN IF devs[i].vendor = "0483" /\ devs[i].model = "5740"
              THEN i
              ELSE ScanDevices(devs, i + 1)
         ELSE ScanDevices(devs, i + 1)

\* the last match instead of the first
RECURSIVE ScanDevicesLast(_, _)
ScanDevicesLast(devs, i) ==
    IF i < 1 THEN 0
    ELSE IF devs[i].vendor = "0483" /\ devs[i].model = "5740"
         THEN i
         ELSE ScanDevicesLast(devs, i - 1)

find_stm32_port_LastMatch(devs) == ScanDevicesLast(devs, Len(devs))
find_stm32_port(devs) == ScanDevices(devs, 1)

\* find_stm32_port of keyboard.py, the same loop
RECURSIVE ScanDevicesKb(_, _)
ScanDevicesKb(devs, i) ==
    IF i > Len(devs) THEN 0
    ELSE IF devs[i].vendor # "absent" /\ devs[i].model # "absent"
         THEN IF devs[i].vendor = "0483" /\ devs[i].model = "5740"
              THEN i
              ELSE ScanDevicesKb(devs, i + 1)
         ELSE ScanDevicesKb(devs, i + 1)

find_stm32_port_kb(devs) == ScanDevicesKb(devs, 1)

\* the copy of find_stm32_port the running program calls
ResolvePort(v, devs) ==
    IF v = "axis" THEN find_stm32_port(devs) ELSE find_stm32_port_kb(devs)

(***************************************************************************)
(* struct.pack('iff', robot_id, vl, vr) of send_data.  The format has no    *)
(* byte-order prefix, so the three fields are laid out in the native byte  *)
(* order of the host: a C int of 4 bytes, two C floats (IEEE-754 single    *)
(* precision) of 4 bytes each, no padding.  Byte sequences are written     *)
(* lowest address first.                                                   *)
(***************************************************************************)
RECURSIVE Pow2(_)
Pow2(k) == IF k = 0 THEN 1 ELSE 2 * Pow2(k - 1)

\* the 4 bytes of a C int, least significant first (two's complement)
Int32BytesLE(n) ==
    << n % 256, (n \div 256) % 256, (n \div 65536) % 256, (n \div 16777216) % 256 >>

\* the next k bits of the binary expansion of r / den (0 <= r < den):
\* << the bits as a number, the remainder >>
RECURSIVE FractionBits(_, _, _, _)
FractionBits(r, den, k, acc) ==
    IF k = 0 THEN << acc, r >>
    ELSE IF 2 * r >= den
         THEN FractionBits(2 * r - den, den, k - 1, 2 * acc + 1)
         ELSE FractionBits(2 * r, den, k - 1, 2 * acc)

\* the conversion of the Python float h / 100 to a C float, round to nearest,
\* ties to even: << sign bit, biased exponent, 23-bit fraction >>
Float32Fields(h) ==
    IF h = 0 THEN << 0, 0, 0 >>
    ELSE LET a    == Abs(h)
             Num(e) == IF e >= 0 THEN a ELSE a * Pow2(-e)
             Den(e) == IF e >= 0 THEN 100 * Pow2(e) ELSE 100
             e    == CHOOSE x \in -7..8 : Den(x) <= Num(x) /\ Num(x) < 2 * Den(x)
             bits == FractionBits(Num(e) - Den(e), Den(e), 23, 0)
             up   == \/ 2 * bits[2] > Den(e)
                     \/ 2 * bits[2] = Den(e) /\ bits[1] % 2 = 1
             frac == IF up THEN bits[1] + 1 ELSE bits[1]
         IN  IF frac = 8388608
             THEN << IF h < 0 THEN 1 ELSE 0, e + 128, 0 >>
             ELSE << IF h < 0 THEN 1 ELSE 0, e + 127, frac >>

\* the 4 bytes of a C float, least significant first
Float32BytesLE(h) ==
    LET f == Float32Fields(h)
    IN  << f[3] % 256,
           (f[3] \div 256) % 256,
           (f[2] % 2) * 128 + (f[3] \div 65536),
           f[1] * 128 + (f[2] \div 2) >>

Reverse4(b) == << b[4], b[3], b[2], b[1] >>

struct_pack(order, id, l, r) ==
    IF order = "little"
    THEN Int32BytesLE(id) \o Float32BytesLE(l) \o Float32BytesLE(r)
    ELSE Reverse4(Int32BytesLE(id)) \o Reverse4(Float32BytesLE(l))
             \o Reverse4(Float32BytesLE(r))

\* robot_id = (robot_id + 1) % 4
NextRobotIdNoWrap(id) == id + 1
NextRobotIdMod3(id) == (id + 1) % 3
NextRobotId(id) == (id + 1) % 4

\* KeyboardControl.update_velocities: start from (0.0, 0.0) and add the
\* contribution of each intent that is set, in the order of the four ifs.
update_velocities_Clamped(f, b, l, r) ==
    LET Clamp(x) == IF x > MAX_SPEED THEN MAX_SPEED
                    ELSE IF x < -MAX_SPEED THEN -MAX_SPEED ELSE x
        v0 == << 0, 0 >>
        v1 == IF f THEN << v0[1] + MAX_SPEED, v0[2] + MAX_SPEED >> ELSE v0
        v2 == IF b THEN << v1[1] - MAX_SPEED, v1[2] - MAX_SPEED >> ELSE v1
        v3 == IF l THEN << v2[1] - (MAX_SPEED \div 2), v2[2] + (MAX_SPEED \div 2) >> ELSE v2
        v4 == IF r THEN << v3[1] + (MAX_SPEED \div 2), v3[2] - (MAX_SPEED \div 2) >> ELSE v3
    IN  << Clamp(v4[1]), Clamp(v4[2]) >>
update_velocities(f, b, l, r) ==
    LET v0 == << 0, 0 >>
        v1 == IF f THEN << v0[1] + MAX_SPEED, v0[2] + MAX_SPEED >> ELSE v0
        v2 == IF b THEN << v1[1] - MAX_SPEED, v1[2] - MAX_SPEED >> ELSE v1
        v3 == IF l THEN << v2[1] - (MAX_SPEED \div 2), v2[2] + (MAX_SPEED \div 2) >> ELSE v2
        v4 == IF r THEN << v3[1] + (MAX_SPEED \div 2), v3[2] - (MAX_SPEED \div 2) >> ELSE v3
    IN  v4

\* JoystickControl.process_input, the dead zone: if abs(v) < 0.1: v = 0
ApplyDeadZoneInclusive(v) == IF Abs(v) <= DEAD_ZONE THEN 0 ELSE v
ApplyDeadZone(v) == IF Abs(v) < DEAD_ZONE THEN 0 ELSE v

\* JoystickControl.process_input, lines 73-84: y is the negated raw Y axis,
\* x the raw X axis, each through the dead zone, then the differential mix.
AxisMixWide(ry, rx) ==
    LET y == ApplyDeadZone(-ry)
        x == ApplyDeadZone(rx)
    IN  << ((y + x) * (2 * MAX_SPEED)) \div 100, ((y - x) * (2 * MAX_SPEED)) \div 100 >>
AxisMix(ry, rx) ==
    LET y == ApplyDeadZone(-ry)
        x == ApplyDeadZone(rx)
    IN  << ((y + x) * MAX_SPEED) \div 100, ((y - x) * MAX_SPEED) \div 100 >>

\* The for-loop body of KeyboardControl.process_input for one event that is
\* not a quit event: the new values of (forward, backward, left, right, robot_id).
IsQuit(e) == \/ e.type = "QUIT"
             \/ e.type = "KEYDOWN" /\ e.key = "K_ESCAPE"

IsCycle(e) == e.type = "KEYDOWN" /\ e.key = "K_x"

\* the intent a key event is about: 1 forward (up, w), 2 backward (down, s),
\* 3 left (left, a), 4 right (right, d); 0 for every other event
IntentOfKey(e) ==
    IF e.type \notin {"KEYDOWN", "KEYUP"} THEN 0
    ELSE CASE e.key = "K_UP"    -> 1  [] e.key = "K_w" -> 1
           [] e.key = "K_DOWN"  -> 2  [] e.key = "K_s" -> 2
           [] e.key = "K_LEFT"  -> 3  [] e.key = "K_a" -> 3
           [] e.key = "K_RIGHT" -> 4  [] e.key = "K_d" -> 4
           [] OTHER             -> 0

ApplyEventForwardCycles(s, e) ==
    IF e.type = "KEYDOWN" THEN
        CASE e.key \in {"K_UP", "K_w"}    -> [s EXCEPT !.forward = TRUE,
                                                       !.robot_id = NextRobotId(s.robot_id)]
          [] e.key \in {"K_DOWN", "K_s"}  -> [s EXCEPT !.backward = TRUE]
          [] e.key \in {"K_LEFT", "K_a"}  -> [s EXCEPT !.left = TRUE]
          [] e.key \in {"K_RIGHT", "K_d"} -> [s EXCEPT !.right = TRUE]
          [] e.key = "K_x"                -> [s EXCEPT !.robot_id = NextRobotId(s.robot_id)]
          [] OTHER                        -> s
    ELSE IF e.type = "KEYUP" THEN
        CASE e.key \in {"K_UP", "K_w"}    -> [s EXCEPT !.forward = FALSE]
          [] e.key \in {"K_DOWN", "K_s"}  -> [s EXCEPT !.backward = FALSE]
          [] e.key \in {"K_LEFT", "K_a"}  -> [s EXCEPT !.left = FALSE]
          [] e.key \in {"K_RIGHT", "K_d"} -> [s EXCEPT !.right = FALSE]
          [] OTHER                        -> s
    ELSE s
ApplyEventArrowReleaseOnly(s, e) ==
    IF e.type = "KEYDOWN" THEN
        CASE e.key \in {"K_UP", "K_w"}    -> [s EXCEPT !.forward = TRUE]
          [] e.key \in {"K_DOWN", "K_s"}  -> [s EXCEPT !.backward = TRUE]
          [] e.key \in {"K_LEFT", "K_a"}  -> [s EXCEPT !.left = TRUE]
          [] e.key \in {"K_RIGHT", "K_d"} -> [s EXCEPT !.right = TRUE]
          [] e.key = "K_x"                -> [s EXCEPT !.robot_id = NextRobotId(s.robot_id)]
          [] OTHER                        -> s
    ELSE IF e.type = "KEYUP" THEN
        CASE e.key = "K_UP"    -> [s EXCEPT !.forward = FALSE]
          [] e.key = "K_DOWN"  -> [s EXCEPT !.backward = FALSE]
          [] e.key = "K_LEFT"  -> [s EXCEPT !.left = FALSE]
          [] e.key = "K_RIGHT" -> [s EXCEPT !.right = FALSE]
          [] OTHER             -> s
    ELSE s
ApplyEvent(s, e) ==
    IF e.type = "KEYDOWN" THEN
        CASE e.key \in {"K_UP", "K_w"}    -> [s EXCEPT !.forward = TRUE]
          [] e.key \in {"K_DOWN", "K_s"}  -> [s EXCEPT !.backward = TRUE]
          [] e.key \in {"K_LEFT", "K_a"}  -> [s EXCEPT !.left = TRUE]
          [] e.key \in {"K_RIGHT", "K_d"} -> [s EXCEPT !.right = TRUE]
          [] e.key = "K_x"                -> [s EXCEPT !.robot_id = NextRobotId(s.robot_id)]
          [] OTHER                        -> s
    ELSE IF e.type = "KEYUP" THEN
        CASE e.key \in {"K_UP", "K_w"}    -> [s EXCEPT !.forward = FALSE]
          [] e.key \in {"K_DOWN", "K_s"}  -> [s EXCEPT !.backward = FALSE]
          [] e.key \in {"K_LEFT", "K_a"}  -> [s EXCEPT !.left = FALSE]
          [] e.key \in {"K_RIGHT", "K_d"} -> [s EXCEPT !.right = FALSE]
          [] OTHER                        -> s
    ELSE s

\* JoystickControl.process_input, line 88: the button edge
ButtonEdgeLevel(now, last) == now
ButtonEdge(now, last) == now /\ ~last

(***************************************************************************)
(* Groups of variables.                                                    *)
(***************************************************************************)
intents   == << forward, backward, left, right >>
velocity  == << vl, vr >>
button    == << last_x_button_state, x_button_state, prevSample >>
axes      == << rawY, rawX >>
queue     == << remaining >>
writeHist == << sent, lastWriteOk, prevWriteOk, lastPrint >>
closeHist == << closeCalls, closeOnClosed >>
exitHist  == << exitPath, intAt, pending, uncaught >>
resolver  == << devices, port, byteorder, frameIn, wire >>
keyHist   == << lastPress, pressed >>
aux       == << quitDelivered, resolves, resolver, keyHist >>

LoopPcs     == {"loop", "events", "button", "remember", "send", "print"}
ShutdownPcs == {"except", "finally", "close", "return", "exited"}

(***************************************************************************)
(* The state at the start of the __main__ block: no object exists yet.     *)
(* The fields hold the values __init__ is about to give them.              *)
(***************************************************************************)
Init ==
    /\ variant \in Variants
    /\ pc = "start"
    /\ ser = "none"
    /\ robot_id = 0
    /\ forward = FALSE /\ backward = FALSE /\ left = FALSE /\ right = FALSE
    /\ vl = 0 /\ vr = 0
    /\ last_x_button_state = FALSE
    /\ x_button_state = FALSE
    /\ remaining = 0
    /\ rawY = 0 /\ rawX = 0
    /\ prevSample = FALSE
    /\ sent = << >>
    /\ lastWriteOk = TRUE
    /\ prevWriteOk = TRUE
    /\ lastPrint = "none"
    /\ triggers = 0
    /\ closeCalls = 0
    /\ closeOnClosed = FALSE
    /\ exitPath = "none"
    /\ intAt = "none"
    /\ quitDelivered = FALSE
    /\ lastPress = << FALSE, FALSE, FALSE, FALSE >>
    /\ pressed = {}
    /\ resolves = 0
    /\ devices = << >>
    /\ port = -1
    /\ byteorder = "native"
    /\ frameIn = << >>
    /\ wire = << >>
    /\ pending = "none"
    /\ uncaught = "none"

(***************************************************************************)
(* __main__, first statement: the constructor.  Construct sets the fields  *)
(* and calls find_stm32_port() on the enumerated devices devs; when no     *)
(* device matches, find_stm32_port raises RuntimeError.  OpenSerial is     *)
(* serial.Serial(...) on the port found: when the port cannot be opened    *)
(* (openOk = FALSE) it raises SerialException.  The exception is in flight *)
(* (pc = "raising") while it passes through the constructor: keyboard.py   *)
(* prints and re-raises, main.py does not catch; ConstructorRaises is the  *)
(* exception leaving __main__.  The channel is kept as open / closed only; *)
(* which node was resolved is examined under SpecResolver.                 *)
(***************************************************************************)
Construct(devs) ==
    /\ pc = "start"
    /\ resolves' = resolves + 1
    /\ robot_id' = 0
    /\ forward' = FALSE /\ backward' = FALSE /\ left' = FALSE /\ right' = FALSE
    /\ vl' = 0 /\ vr' = 0
    /\ last_x_button_state' = FALSE
    /\ IF ResolvePort(variant, devs) # 0
       THEN /\ pc' = "opening"
            /\ UNCHANGED pending
       ELSE /\ pc' = "raising"
            /\ pending' = "RuntimeError"
    /\ UNCHANGED << variant, quitDelivered, keyHist, resolver, ser, x_button_state, prevSample,
                    axes, queue, writeHist, triggers, closeHist, exitPath, intAt, uncaught >>

\* serial.Serial(port, 115200, timeout=1)
OpenSerialSwallows(openOk) ==
    /\ pc = "opening"
    /\ ser' = IF openOk THEN "open" ELSE "none"
    /\ pc' = "constructed"
    /\ UNCHANGED << variant, aux, robot_id, intents, velocity, button, axes, queue,
                    writeHist, triggers, closeHist, exitHist >>
OpenSerial(openOk) ==
    /\ pc = "opening"
    /\ IF openOk
       THEN /\ ser' = "open"
            /\ pc' = "constructed"
            /\ UNCHANGED pending
       ELSE /\ ser' = "none"
            /\ pc' = "raising"
            /\ pending' = "SerialException"
    /\ UNCHANGED << variant, aux, robot_id, intents, velocity, button, axes, queue,
                    writeHist, triggers, closeHist, exitPath, intAt, uncaught >>

\* the exception raised in the constructor leaves it (keyboard.py: after the
\* except Exception clause has printed it) and ends the process
ConstructorRaises ==
    /\ pc = "raising"
    /\ pc' = "exited"
    /\ exitPath' = "startup_failure"
    /\ uncaught' = pending
    /\ UNCHANGED << variant, aux, ser, robot_id, intents, velocity, button, axes, queue,
                    writeHist, triggers, closeHist, intAt, pending >>

(***************************************************************************)
(* __main__, second statement: setup().  main.py raises RuntimeError when  *)
(* no joystick is connected; in keyboard.py pygame.display.set_mode raises *)
(* pygame.error when no window can be made.  Neither program catches it.   *)
(***************************************************************************)
SetupNotFatal(backendOk) ==
    /\ pc = "constructed"
    /\ pc' = "ready"
    /\ IF backendOk
       THEN UNCHANGED exitHist
       ELSE /\ exitPath' = "setup_failure"
            /\ UNCHANGED << intAt, pending, uncaught >>
    /\ UNCHANGED << variant, aux, ser, robot_id, intents, velocity, button, axes, queue,
                    writeHist, triggers, closeHist >>
Setup(backendOk) ==
    /\ pc = "constructed"
    /\ IF backendOk
       THEN /\ pc' = "ready"
            /\ UNCHANGED exitHist
       ELSE /\ pc' = "exited"
            /\ exitPath' = "setup_failure"
            /\ uncaught' = IF variant = "axis" THEN "RuntimeError" ELSE "pygame.error"
            /\ UNCHANGED << intAt, pending >>
    /\ UNCHANGED << variant, aux, ser, robot_id, intents, velocity, button, axes, queue,
                    writeHist, triggers, closeHist >>

\* __main__, third statement: run() enters its try block and its loop.
EnterRun ==
    /\ pc = "ready"
    /\ pc' = "loop"
    /\ UNCHANGED << variant, aux, ser, robot_id, intents, velocity, button, axes, queue,
                    writeHist, triggers, closeHist, exitHist >>

(***************************************************************************)
(* Key variant, one tick of KeyboardControl.process_input.                 *)
(***************************************************************************)

\* for event in pygame.event.get(): the batch of this tick has n events
PollEvents(n) ==
    /\ variant = "key"
    /\ pc = "loop"
    /\ remaining' = n
    /\ sent' = << >>
    /\ pressed' = {}
    /\ pc' = "events"
    /\ UNCHANGED << variant, quitDelivered, resolves, resolver, lastPress, ser, robot_id, intents, velocity, button, axes,
                    lastWriteOk, prevWriteOk, lastPrint, triggers, closeHist, exitHist >>

\* one iteration of the for loop, on the next event e of the batch
HandleEventQuitAfterTick(e) ==
    /\ variant = "key"
    /\ pc = "events"
    /\ remaining > 0
    /\ IsCycle(e) => triggers < MaxTriggers
    /\ remaining' = remaining - 1
    /\ quitDelivered' = (quitDelivered \/ IsQuit(e))
    /\ lastPress' = IF ~IsQuit(e) /\ IntentOfKey(e) # 0
                    THEN [lastPress EXCEPT ![IntentOfKey(e)] = (e.type = "KEYDOWN")]
                    ELSE lastPress
    /\ pressed' = IF ~IsQuit(e) /\ IntentOfKey(e) # 0 /\ e.type = "KEYDOWN"
                  THEN pressed \cup {IntentOfKey(e)}
                  ELSE pressed
    /\ IF IsQuit(e)
       THEN /\ pc' = "events"
            /\ exitPath' = "quit"
            /\ UNCHANGED << robot_id, intents, triggers, intAt, pending, uncaught >>
       ELSE LET s == ApplyEvent([forward |-> forward, backward |-> backward,
                                 left |-> left, right |-> right,
                                 robot_id |-> robot_id], e)
            IN  /\ forward' = s.forward
                /\ backward' = s.backward
                /\ left' = s.left
                /\ right' = s.right
                /\ robot_id' = s.robot_id
                /\ triggers' = IF IsCycle(e) THEN triggers + 1 ELSE triggers
                /\ pc' = "events"
                /\ UNCHANGED exitHist
    /\ UNCHANGED << variant, resolves, resolver, ser, velocity, button, axes, writeHist,
                    closeHist >>
HandleEvent(e) ==
    /\ variant = "key"
    /\ pc = "events"
    /\ remaining > 0
    /\ IsCycle(e) => triggers < MaxTriggers
    /\ remaining' = remaining - 1
    /\ quitDelivered' = (quitDelivered \/ IsQuit(e))
    /\ lastPress' = IF ~IsQuit(e) /\ IntentOfKey(e) # 0
                    THEN [lastPress EXCEPT ![IntentOfKey(e)] = (e.type = "KEYDOWN")]
                    ELSE lastPress
    /\ pressed' = IF ~IsQuit(e) /\ IntentOfKey(e) # 0 /\ e.type = "KEYDOWN"
                  THEN pressed \cup {IntentOfKey(e)}
                  ELSE pressed
    /\ IF IsQuit(e)
       THEN \* return False; running = False; the while loop ends
            /\ pc' = "finally"
            /\ exitPath' = "quit"
            /\ UNCHANGED << robot_id, intents, triggers, intAt, pending, uncaught >>
       ELSE LET s == ApplyEvent([forward |-> forward, backward |-> backward,
                                 left |-> left, right |-> right,
                                 robot_id |-> robot_id], e)
            IN  /\ forward' = s.forward
                /\ backward' = s.backward
                /\ left' = s.left
                /\ right' = s.right
                /\ robot_id' = s.robot_id
                /\ triggers' = IF IsCycle(e) THEN triggers + 1 ELSE triggers
                /\ pc' = "events"
                /\ UNCHANGED exitHist
    /\ UNCHANGED << variant, resolves, resolver, ser, velocity, button, axes, writeHist,
                    closeHist >>

\* the for loop is over: self.update_velocities()
UpdateVelocitiesAccumulates ==
    /\ variant = "key"
    /\ pc = "events"
    /\ remaining = 0
    /\ LET v == update_velocities(forward, backward, left, right)
       IN  vl' = vl + v[1] /\ vr' = vr + v[2]
    /\ pc' = "send"
    /\ UNCHANGED << variant, aux, ser, robot_id, intents, button, axes, remaining,
                    writeHist, triggers, closeHist, exitHist >>
UpdateVelocitiesStale ==
    /\ variant = "key"
    /\ pc = "events"
    /\ remaining = 0
    /\ pc' = "send"
    /\ UNCHANGED << variant, aux, ser, robot_id, intents, velocity, button, axes, remaining,
                    writeHist, triggers, closeHist, exitHist >>
UpdateVelocities ==
    /\ variant = "key"
    /\ pc = "events"
    /\ remaining = 0
    /\ LET v == update_velocities(forward, backward, left, right)
       IN  vl' = v[1] /\ vr' = v[2]
    /\ pc' = "send"
    /\ UNCHANGED << variant, aux, ser, robot_id, intents, button, axes, remaining,
                    writeHist, triggers, closeHist, exitHist >>

\* self.send_data(): pack and ser.write.  ok = FALSE: ser.write raises and the
\* except Exception clause is entered.
KeySendDataStopsOnFailure(ok) ==
    /\ variant = "key"
    /\ pc = "send"
    /\ sent' = Append(sent, << robot_id, vl, vr >>)
    /\ prevWriteOk' = lastWriteOk
    /\ lastWriteOk' = ok
    /\ pc' = IF ok THEN "print" ELSE "finally"
    /\ UNCHANGED << variant, aux, ser, robot_id, intents, velocity, button, axes, queue,
                    lastPrint, triggers, closeHist, exitHist >>
KeySendData(ok) ==
    /\ variant = "key"
    /\ pc = "send"
    /\ sent' = Append(sent, << robot_id, vl, vr >>)
    /\ prevWriteOk' = lastWriteOk
    /\ lastWriteOk' = ok
    /\ pc' = "print"
    /\ UNCHANGED << variant, aux, ser, robot_id, intents, velocity, button, axes, queue,
                    lastPrint, triggers, closeHist, exitHist >>

\* send_data, after ser.write: the line it prints ("sent" after a write that
\* returned, the error in the except Exception clause after one that raised);
\* process_input returns and the loop goes on
KeySendPrint ==
    /\ variant = "key"
    /\ pc = "print"
    /\ lastPrint' = IF lastWriteOk THEN "sent" ELSE "error"
    /\ pc' = "loop"
    /\ UNCHANGED << variant, aux, ser, robot_id, intents, velocity, button, axes, queue,
                    sent, lastWriteOk, prevWriteOk, triggers, closeHist, exitHist >>

(***************************************************************************)
(* Axis variant, one tick of JoystickControl.process_input.                *)
(***************************************************************************)

\* lines 70-84: pump, read the two axes, dead zone, differential mix
ReadAxes(ry, rx) ==
    /\ variant = "axis"
    /\ pc = "loop"
    /\ rawY' = ry /\ rawX' = rx
    /\ sent' = << >>
    /\ LET v == AxisMix(ry, rx)
       IN  vl' = v[1] /\ vr' = v[2]
    /\ pc' = "button"
    /\ UNCHANGED << variant, aux, ser, robot_id, intents, button, queue,
                    lastWriteOk, prevWriteOk, lastPrint, triggers, closeHist, exitHist >>

\* lines 87-90: sample the button and cycle the address on an edge
ReadButton(b) ==
    /\ variant = "axis"
    /\ pc = "button"
    /\ (b /\ ~x_button_state) => triggers < MaxTriggers
    /\ x_button_state' = b
    /\ prevSample' = x_button_state
    /\ robot_id' = IF ButtonEdge(b, last_x_button_state)
                   THEN NextRobotId(robot_id) ELSE robot_id
    /\ triggers' = IF b /\ ~x_button_state THEN triggers + 1 ELSE triggers
    /\ pc' = "remember"
    /\ UNCHANGED << variant, aux, ser, intents, velocity, axes, queue, writeHist,
                    last_x_button_state, closeHist, exitHist >>

\* line 92: self.last_x_button_state = x_button_state
RememberButton ==
    /\ variant = "axis"
    /\ pc = "remember"
    /\ last_x_button_state' = x_button_state
    /\ pc' = "send"
    /\ UNCHANGED << variant, aux, ser, robot_id, intents, velocity, axes, queue, writeHist,
                    x_button_state, prevSample, triggers, closeHist, exitHist >>

\* line 94: self.send_data(vl, vr): pack and ser.write.  ok = FALSE: ser.write
\* raises and the except Exception clause is entered.
AxisSendDataStopsOnFailure(ok) ==
    /\ variant = "axis"
    /\ pc = "send"
    /\ sent' = Append(sent, << robot_id, vl, vr >>)
    /\ prevWriteOk' = lastWriteOk
    /\ lastWriteOk' = ok
    /\ pc' = IF ok THEN "print" ELSE "finally"
    /\ UNCHANGED << variant, aux, ser, robot_id, intents, velocity, button, axes, queue,
                    lastPrint, triggers, closeHist, exitHist >>
AxisSendData(ok) ==
    /\ variant = "axis"
    /\ pc = "send"
    /\ sent' = Append(sent, << robot_id, vl, vr >>)
    /\ prevWriteOk' = lastWriteOk
    /\ lastWriteOk' = ok
    /\ pc' = "print"
    /\ UNCHANGED << variant, aux, ser, robot_id, intents, velocity, button, axes, queue,
                    lastPrint, triggers, closeHist, exitHist >>

\* send_data, after ser.write: the line it prints ("sent" after a write that
\* returned, the error in the except Exception clause after one that raised);
\* process_input returns and the loop goes on
AxisSendPrint ==
    /\ variant = "axis"
    /\ pc = "print"
    /\ lastPrint' = IF lastWriteOk THEN "sent" ELSE "error"
    /\ pc' = "loop"
    /\ UNCHANGED << variant, aux, ser, robot_id, intents, velocity, button, axes, queue,
                    sent, lastWriteOk, prevWriteOk, triggers, closeHist, exitHist >>

\* The input backend delivers a quit signal (a pygame QUIT event) while the
\* loop runs.  process_input only calls pygame.event.pump(): the event stays in
\* pygame's queue, which main.py never reads.
QuitPosted ==
    /\ variant = "axis"
    /\ pc \in LoopPcs
    /\ ~quitDelivered
    /\ quitDelivered' = TRUE
    /\ UNCHANGED << variant, resolves, resolver, keyHist, pc, ser, robot_id, intents, velocity,
                    button, axes, queue, writeHist, triggers, closeHist, exitHist >>

(***************************************************************************)
(* Exceptions.  KeyboardInterrupt is raised wherever the thread is when    *)
(* the signal arrives; it is not an Exception, so send_data's handler does *)
(* not catch it.                                                           *)
(***************************************************************************)

\* in __main__ outside run()'s try block (before or inside the constructor,
\* inside setup(), before run() has entered its try): nothing catches it,
\* keyboard.py's except Exception in the constructor included; the process ends
InterruptBeforeRun ==
    /\ pc \in {"start", "opening", "raising", "constructed", "ready"}
    /\ pc' = "exited"
    /\ exitPath' = "pre_run_interrupt"
    /\ intAt' = pc
    /\ uncaught' = "KeyboardInterrupt"
    /\ UNCHANGED << variant, aux, ser, robot_id, intents, velocity, button, axes, queue,
                    writeHist, triggers, closeHist, pending >>

\* inside run()'s try block: control goes to except KeyboardInterrupt
InterruptInLoop ==
    /\ pc \in LoopPcs
    /\ pc' = "except"
    /\ exitPath' = "loop_interrupt"
    /\ intAt' = pc
    /\ UNCHANGED << variant, aux, ser, robot_id, intents, velocity, button, axes, queue,
                    writeHist, triggers, closeHist, pending, uncaught >>

\* the except clause prints and falls through to the finally block
HandleInterrupt ==
    /\ pc = "except"
    /\ pc' = "finally"
    /\ UNCHANGED << variant, aux, ser, robot_id, intents, velocity, button, axes, queue,
                    writeHist, triggers, closeHist, exitHist >>

\* a further interrupt inside the except clause: the finally block still runs,
\* with the new KeyboardInterrupt in flight
InterruptInHandler ==
    /\ pc = "except"
    /\ pc' = "finally"
    /\ exitPath' = "shutdown_interrupt"
    /\ pending' = "KeyboardInterrupt"
    /\ UNCHANGED << variant, aux, ser, robot_id, intents, velocity, button, axes, queue,
                    writeHist, triggers, closeHist, intAt, uncaught >>

\* an interrupt inside the finally block, before ser.close() or while it
\* returns: it leaves run()
InterruptInFinally ==
    /\ pc \in {"finally", "close", "return"}
    /\ pc' = "exited"
    /\ exitPath' = "shutdown_interrupt"
    /\ intAt' = IF intAt = "none" THEN pc ELSE intAt
    /\ uncaught' = "KeyboardInterrupt"
    /\ UNCHANGED << variant, aux, ser, robot_id, intents, velocity, button, axes, queue,
                    writeHist, triggers, closeHist, pending >>

\* the input backend raises inside the loop (pygame.error from event.get(),
\* event.pump(), get_axis() or get_button()): except KeyboardInterrupt does not
\* match, the finally block runs with the exception in flight
LoopError ==
    /\ pc \in {"loop", "button"}
    /\ pc' = "finally"
    /\ exitPath' = "loop_error"
    /\ pending' = "pygame.error"
    /\ UNCHANGED << variant, aux, ser, robot_id, intents, velocity, button, axes, queue,
                    writeHist, triggers, closeHist, intAt, uncaught >>

(***************************************************************************)
(* run()'s finally block.                                                  *)
(***************************************************************************)

\* pygame.quit()
PygameQuit ==
    /\ pc = "finally"
    /\ pc' = "close"
    /\ UNCHANGED << variant, aux, ser, robot_id, intents, velocity, button, axes, queue,
                    writeHist, triggers, closeHist, exitHist >>

\* keyboard.py: if hasattr(self, 'ser') and self.ser.is_open: self.ser.close()
KeyCloseSkips ==
    /\ variant = "key"
    /\ pc = "close"
    /\ pc' = "return"
    /\ UNCHANGED << variant, aux, ser, robot_id, intents, velocity, button, axes, queue,
                    writeHist, triggers, closeHist, exitHist >>
KeyClose ==
    /\ variant = "key"
    /\ pc = "close"
    /\ IF ser = "open"
       THEN /\ ser' = "closed"
            /\ closeCalls' = closeCalls + 1
            /\ UNCHANGED closeOnClosed
       ELSE UNCHANGED << ser, closeHist >>
    /\ pc' = "return"
    /\ UNCHANGED << variant, aux, robot_id, intents, velocity, button, axes, queue,
                    writeHist, triggers, exitHist >>

\* main.py: self.ser.close()
AxisClose ==
    /\ variant = "axis"
    /\ pc = "close"
    /\ ser' = "closed"
    /\ closeCalls' = closeCalls + 1
    /\ closeOnClosed' = (closeOnClosed \/ ser # "open")
    /\ pc' = "return"
    /\ UNCHANGED << variant, aux, robot_id, intents, velocity, button, axes, queue,
                    writeHist, triggers, exitHist >>

\* the finally block is over: run() returns, or the exception it carried goes
\* on out of __main__; the process ends
RunReturns ==
    /\ pc = "return"
    /\ pc' = "exited"
    /\ uncaught' = pending
    /\ UNCHANGED << variant, aux, ser, robot_id, intents, velocity, button, axes, queue,
                    writeHist, triggers, closeHist, exitPath, intAt, pending >>

\* the constructor on whatever pyudev enumerates and whatever the open yields
ConstructAny ==
    /\ pc = "start"
    /\ \E devs \in DeviceLists : Construct(devs)

Next ==
    \/ ConstructAny
    \/ \E openOk \in BOOLEAN : OpenSerial(openOk)
    \/ ConstructorRaises
    \/ \E backendOk \in BOOLEAN : Setup(backendOk)
    \/ EnterRun
    \/ \E n \in 0..MaxBatch : PollEvents(n)
    \/ \E e \in Events : HandleEvent(e)
    \/ UpdateVelocities
    \/ \E ok \in BOOLEAN : KeySendData(ok)
    \/ KeySendPrint
    \/ \E ry \in AxisSamples, rx \in AxisSamples : ReadAxes(ry, rx)
    \/ \E b \in BOOLEAN : ReadButton(b)
    \/ RememberButton
    \/ \E ok \in BOOLEAN : AxisSendData(ok)
    \/ AxisSendPrint
    \/ QuitPosted
    \/ InterruptBeforeRun
    \/ InterruptInLoop
    \/ HandleInterrupt
    \/ InterruptInHandler
    \/ InterruptInFinally
    \/ LoopError
    \/ PygameQuit
    \/ KeyClose
    \/ AxisClose
    \/ RunReturns

Spec == Init /\ [][Next]_vars

(***************************************************************************)
(* The port resolver on its own: find_stm32_port applied to every          *)
(* enumeration of at most MaxDevices devices, by either program.           *)
(***************************************************************************)
InitResolver ==
    /\ variant \in Variants
    /\ pc = "start"
    /\ ser = "none"
    /\ robot_id = 0
    /\ forward = FALSE /\ backward = FALSE /\ left = FALSE /\ right = FALSE
    /\ vl = 0 /\ vr = 0
    /\ last_x_button_state = FALSE
    /\ x_button_state = FALSE
    /\ remaining = 0
    /\ rawY = 0 /\ rawX = 0
    /\ prevSample = FALSE
    /\ sent = << >>
    /\ lastWriteOk = TRUE
    /\ prevWriteOk = TRUE
    /\ lastPrint = "none"
    /\ triggers = 0
    /\ closeCalls = 0
    /\ closeOnClosed = FALSE
    /\ exitPath = "none"
    /\ intAt = "none"
    /\ quitDelivered = FALSE
    /\ lastPress = << FALSE, FALSE, FALSE, FALSE >>
    /\ pressed = {}
    /\ resolves = 0
    /\ devices \in DeviceLists
    /\ port = -1
    /\ byteorder = "native"
    /\ frameIn = << >>
    /\ wire = << >>
    /\ pending = "none"
    /\ uncaught = "none"

\* find_stm32_port() is called on the enumeration
Resolve ==
    /\ pc = "start"
    /\ port = -1
    /\ port' = ResolvePort(variant, devices)
    /\ resolves' = resolves + 1
    /\ UNCHANGED << variant, pc, ser, robot_id, intents, velocity, button, axes, queue,
                    writeHist, triggers, closeHist, exitHist, quitDelivered, keyHist, devices,
                    byteorder, frameIn, wire >>

NextResolver == Resolve

SpecResolver == InitResolver /\ [][NextResolver]_vars

(***************************************************************************)
(* The frame codec on its own: send_data's struct.pack applied to every    *)
(* address in 0..3 and to velocities of both signs, on a host of either    *)
(* byte order.                                                             *)
(***************************************************************************)

\* velocities (hundredths) that single precision holds exactly, as are the
\* multiples of 0.5 the key mapper produces and the sums of the readings
\* k / 32768 pygame delivers for a joystick axis
CodecVelocities == {-200, -150, -100, -50, -25, 0, 25, 50, 100, 150, 200}

InitCodec ==
    /\ variant \in Variants
    /\ pc = "send"
    /\ ser = "open"
    /\ robot_id \in 0..3
    /\ forward = FALSE /\ backward = FALSE /\ left = FALSE /\ right = FALSE
    /\ vl \in CodecVelocities /\ vr \in CodecVelocities
    /\ last_x_button_state = FALSE
    /\ x_button_state = FALSE
    /\ remaining = 0
    /\ rawY = 0 /\ rawX = 0
    /\ prevSample = FALSE
    /\ sent = << >>
    /\ lastWriteOk = TRUE
    /\ prevWriteOk = TRUE
    /\ lastPrint = "none"
    /\ triggers = 0
    /\ closeCalls = 0
    /\ closeOnClosed = FALSE
    /\ exitPath = "none"
    /\ intAt = "none"
    /\ quitDelivered = FALSE
    /\ lastPress = << FALSE, FALSE, FALSE, FALSE >>
    /\ pressed = {}
    /\ resolves = 1
    /\ devices = << >>
    /\ port = -1
    /\ byteorder \in {"little", "big"}
    /\ frameIn = << >>
    /\ wire = << >>
    /\ pending = "none"
    /\ uncaught = "none"

\* data = struct.pack('iff', self.robot_id, vl, vr)
Pack ==
    /\ pc = "send"
    /\ wire = << >>
    /\ frameIn' = << robot_id, vl, vr >>
    /\ wire' = struct_pack(byteorder, robot_id, vl, vr)
    /\ UNCHANGED << variant, pc, ser, robot_id, intents, velocity, button, axes, queue,
                    writeHist, triggers, closeHist, exitHist, quitDelivered, keyHist, resolves,
                    devices, port, byteorder >>

NextCodec == Pack

SpecCodec == InitCodec /\ [][NextCodec]_vars

(***************************************************************************)
(* Properties.                                                             *)
(***************************************************************************)

\* C1: on every exit path taken after the serial channel was opened (normal
\* quit, interrupt inside the loop, a failure raised by setup(), an interrupt
\* between construction and run()) the channel is closed when the process ends.
C1_ClosedOnEveryExitPath ==
    (pc = "exited" /\ exitPath \in {"quit", "loop_interrupt", "setup_failure",
                                    "pre_run_interrupt"})
        => ser # "open"

\* C2: after an interrupt that arrives while run() executes the loop, the loop
\* has stopped (control is in the shutdown path), close() is called at most
\* once and never on a channel that is not open, the channel stays open until
\* that call, and when the process has ended the channel is closed by exactly
\* one close() call.
C2_InterruptClosesExactlyOnce ==
    exitPath = "loop_interrupt" =>
        /\ pc \in ShutdownPcs
        /\ intAt \in LoopPcs
        /\ ~closeOnClosed
        /\ pc \in {"except", "finally", "close"} => (ser = "open" /\ closeCalls = 0)
        /\ pc \in {"return", "exited"} => (ser = "closed" /\ closeCalls = 1)

\* an interrupt arrived inside send_data, after ser.write and before the line
\* is printed, and the process ended
C2_Witness ==
    /\ pc = "exited"
    /\ exitPath = "loop_interrupt"
    /\ intAt = "print"
    /\ Len(sent) = 1
    /\ ser = "closed"
    /\ closeCalls = 1

\* C3: a failed ser.write does not end the loop: the step that makes the failed
\* write goes on to the except Exception clause of send_data and leaves
\* robot_id, the intents, the velocities and the previous-button state as they
\* were; from there the only way on, short of an interrupt, is to print the
\* error and return to the top of the loop; every tick hands ser.write at most
\* one frame, the frame of that tick's own state (a failed frame is not written
\* again), whatever the outcome of the earlier writes.
C3_WriteFailureContinues ==
    /\ [](/\ Len(sent) <= 1
          /\ pc = "send" => sent = << >>
          /\ (pc \in {"print", "loop"} /\ sent # << >>) => sent = << << robot_id, vl, vr >> >>)
    /\ [][(pc = "send" /\ sent' # sent /\ ~lastWriteOk') =>
            /\ pc' = "print"
            /\ sent' = << << robot_id, vl, vr >> >>
            /\ robot_id' = robot_id
            /\ intents' = intents
            /\ velocity' = velocity
            /\ last_x_button_state' = last_x_button_state]_vars
    /\ [][(pc = "print" /\ ~lastWriteOk /\ pc' # "print" /\ exitPath' = exitPath) =>
            /\ pc' = "loop"
            /\ lastPrint' = "error"
            /\ sent' = sent
            /\ robot_id' = robot_id
            /\ intents' = intents
            /\ velocity' = velocity
            /\ last_x_button_state' = last_x_button_state]_vars

\* two writes in a row have failed and a third tick is about to write
C3_Witness ==
    /\ pc = "send"
    /\ ~lastWriteOk
    /\ ~prevWriteOk
    /\ lastPrint = "error"
    /\ sent = << >>

\* C4: robot_id is always an integer in 0..3, it is 0 from startup until the
\* loop is entered, and every frame handed to ser.write carries an address in 0..3.
C4_RobotIdInRange ==
    /\ robot_id \in 0..3
    /\ pc \in {"start", "opening", "raising", "constructed", "ready"} => robot_id = 0
    /\ \A i \in 1..Len(sent) : sent[i][1] \in 0..3

\* the address has wrapped from 3 to 0 and a frame with address 0 was written
C4_Witness ==
    /\ triggers = 4
    /\ robot_id = 0
    /\ Len(sent) = 1
    /\ sent[1][1] = 0

\* C5: axis variant, every button-sampling step: robot_id advances by one modulo
\* 4 exactly when this tick's sample is true and the previous tick's sample was
\* false (false before the first tick), otherwise it is unchanged, in particular
\* while the button is held; the step that follows stores this tick's sample in
\* last_x_button_state and leaves robot_id alone, so that from there to the
\* next sampling last_x_button_state is the sample of the tick.
C5_EdgeTriggered ==
    /\ []((variant = "axis" /\ pc \in {"loop", "button", "send", "print"}) =>
              last_x_button_state = x_button_state)
    /\ [][(variant = "axis" /\ pc = "button" /\ pc' = "remember") =>
             /\ prevSample' = x_button_state
             /\ robot_id' = IF x_button_state' /\ ~prevSample'
                            THEN (robot_id + 1) % 4 ELSE robot_id
             /\ (x_button_state' /\ prevSample') => robot_id' = robot_id]_vars
    /\ [][(variant = "axis" /\ pc = "remember" /\ pc' = "send") =>
             /\ last_x_button_state' = x_button_state
             /\ x_button_state' = x_button_state
             /\ robot_id' = robot_id]_vars

\* the button was pressed once and is still held a tick later: one increment
C5_Witness ==
    /\ variant = "axis"
    /\ pc = "send"
    /\ x_button_state
    /\ prevSample
    /\ triggers = 1
    /\ robot_id = 1

\* C6: after k cycle triggers from the start address 0 the address is k mod 4
\* (so between any two states with k triggers in between the address goes from
\* a to (a + k) mod 4, and four triggers return to the same address).
C6_CycleArithmetic ==
    /\ robot_id = triggers % 4
    /\ triggers >= 4 => (robot_id = (triggers - 4) % 4)

\* four triggers from address 0 have returned to address 0
C6_Witness ==
    /\ triggers = 4
    /\ robot_id = 0
    /\ pc = "loop"

\* C7: robot_id changes only in a step that handles a cycle trigger (a cycle-key
\* press in the event loop of the key variant, a button edge in the button
\* sampling of the axis variant); every other step, in particular a directional
\* or other key event, the reading of the axes and a write, failed or not,
\* leaves it unchanged.
C7_OnlyCycleChangesAddress ==
    [][/\ robot_id' # robot_id =>
            /\ triggers' = triggers + 1
            /\ \/ variant = "key" /\ pc = "events"
               \/ variant = "axis" /\ pc = "button" /\ x_button_state' /\ ~x_button_state
       /\ (pc = "loop" /\ pc' = "button") => robot_id' = robot_id
       /\ pc \in {"remember", "send", "print"} => robot_id' = robot_id]_vars

\* directional events and a failed write have happened, the address never moved
C7_Witness ==
    /\ variant = "key"
    /\ pc = "loop"
    /\ forward /\ left
    /\ ~lastWriteOk
    /\ sent # << >>
    /\ triggers = 0
    /\ robot_id = 0

\* C8 as stated: both velocities handed to send_data lie in [-MAX_SPEED, MAX_SPEED].
C8_WithinMaxSpeed ==
    pc = "send" => (Abs(vl) <= MAX_SPEED /\ Abs(vr) <= MAX_SPEED)

\* C8 as amended: the velocities handed to send_data are not clamped.  Key
\* variant: both lie in [-1.5 MAX_SPEED, 1.5 MAX_SPEED], and in [-MAX_SPEED,
\* MAX_SPEED] when at most one intent is set.  Axis variant: both lie in
\* [-2 MAX_SPEED, 2 MAX_SPEED], and in [-MAX_SPEED, MAX_SPEED] when the
\* magnitudes of the two raw readings sum to at most 1.
C8_UnclampedRange ==
    pc = "send" =>
        /\ variant = "key" =>
            /\ 2 * Abs(vl) <= 3 * MAX_SPEED
            /\ 2 * Abs(vr) <= 3 * MAX_SPEED
            /\ Cardinality({i \in 1..4 : intents[i]}) <= 1
                   => (Abs(vl) <= MAX_SPEED /\ Abs(vr) <= MAX_SPEED)
        /\ variant = "axis" =>
            /\ Abs(vl) <= 2 * MAX_SPEED
            /\ Abs(vr) <= 2 * MAX_SPEED
            /\ Abs(rawY) + Abs(rawX) <= 100
                   => (Abs(vl) <= MAX_SPEED /\ Abs(vr) <= MAX_SPEED)

\* full forward and full turn on the stick: the left wheel gets 2.0
C8_Witness ==
    /\ variant = "axis"
    /\ pc = "send"
    /\ rawY = -100 /\ rawX = 100
    /\ vl = 200 /\ vr = 0

\* C9: key variant, the velocities update_velocities has just derived are the
\* linear unclamped sum of the contributions forward (+M, +M), backward
\* (-M, -M), left (-M/2, +M/2), right (+M/2, -M/2): each intent alone gives
\* its own contribution, no intent gives (0, 0), forward+left gives (0.5, 1.5),
\* opposing intents cancel.
C9_LinearSum ==
    (variant = "key" /\ pc = "send") =>
        LET B(x) == IF x THEN 1 ELSE 0
            only(i) == \A j \in 1..4 : intents[j] <=> (j = i)
        IN  /\ 2 * vl = 2 * 100 * (B(forward) - B(backward)) + 100 * (B(right) - B(left))
            /\ 2 * vr = 2 * 100 * (B(forward) - B(backward)) + 100 * (B(left) - B(right))
            /\ only(1) => velocity = << 100, 100 >>
            /\ only(2) => velocity = << -100, -100 >>
            /\ only(3) => velocity = << -50, 50 >>
            /\ only(4) => velocity = << 50, -50 >>
            /\ only(0) => velocity = << 0, 0 >>
            /\ intents = << TRUE, FALSE, TRUE, FALSE >> => velocity = << 50, 150 >>
            /\ intents = << TRUE, TRUE, FALSE, FALSE >> => velocity = << 0, 0 >>
            /\ intents = << FALSE, FALSE, TRUE, TRUE >> => velocity = << 0, 0 >>

\* forward and left are set together and (0.5, 1.5) is about to be sent
C9_Witness ==
    /\ variant = "key"
    /\ pc = "send"
    /\ intents = << TRUE, FALSE, TRUE, FALSE >>
    /\ velocity = << 50, 150 >>

\* C10: axis variant, with forward the negated raw Y reading and turn the raw X
\* reading: an axis of magnitude strictly below 0.1 counts as 0, one of magnitude
\* exactly 0.1 is kept, each axis on its own; then left = (forward + turn) *
\* MAX_SPEED and right = (forward - turn) * MAX_SPEED.  (0.05, 0.05) gives
\* (0, 0) and (0.5, 0.5) gives (1.0, 0.0).
C10_DeadZoneAndMix ==
    (variant = "axis" /\ pc \in {"button", "remember", "send"}) =>
        LET fwd  == 0 - rawY
            turn == rawX
            f    == IF -10 < fwd /\ fwd < 10 THEN 0 ELSE fwd
            t    == IF -10 < turn /\ turn < 10 THEN 0 ELSE turn
        IN  /\ velocity = << f + t, f - t >>
            /\ (fwd = 5 /\ turn = 5) => velocity = << 0, 0 >>
            /\ (fwd = 50 /\ turn = 50) => velocity = << 100, 0 >>
            /\ (fwd = 10 /\ turn = 0) => velocity = << 10, 10 >>
            /\ (fwd = -10 /\ turn = 5) => velocity = << -10, -10 >>
            /\ (fwd = 5 /\ turn = 50) => velocity = << 50, -50 >>

\* forward is exactly 0.1 and kept, turn is 0.05 and dropped
C10_Witness ==
    /\ variant = "axis"
    /\ pc = "send"
    /\ rawY = -10 /\ rawX = 5
    /\ velocity = << 10, 10 >>

\* C11: in each variant, once a quit signal from the input backend or an
\* external interrupt has been delivered, no later tick is started.
C11_QuitOrInterruptEndsLoop ==
    [][(quitDelivered \/ intAt # "none") =>
           ~(pc = "loop" /\ pc' \in {"events", "button"})]_vars

\* C12: no failure (device not found, serial open failure, setup failure, write
\* failure, input-backend error inside the loop) ends the process as an
\* uncaught exception.
C12_NoUncaughtFailure ==
    pc = "exited" => uncaught \in {"none", "KeyboardInterrupt"}

\* C13: a startup failure (no matching device, the port cannot be opened, the
\* input backend cannot be set up) ends the process at once with the exception:
\* the loop is never entered, send_data has never run, no frame has been handed
\* to ser.write, and find_stm32_port has been called once and is never called
\* again.  The same holds from the moment the constructor's exception is
\* raised, whether it or an interrupt that arrives while it is in flight ends
\* the process.
C13_StartupFailureIsFatal ==
    /\ resolves <= 1
    /\ exitPath \in {"startup_failure", "setup_failure"} =>
        /\ pc = "exited"
        /\ uncaught \in {"RuntimeError", "SerialException", "pygame.error"}
        /\ resolves = 1
        /\ sent = << >>
        /\ lastPrint = "none"
        /\ triggers = 0
        /\ exitPath = "startup_failure" => ser = "none"
    /\ pending \in {"RuntimeError", "SerialException"} =>
        /\ pc \in {"raising", "exited"}
        /\ ser = "none"
        /\ resolves = 1
        /\ sent = << >>
        /\ lastPrint = "none"

\* main.py found the port but no joystick: the process has ended before the loop
C13_Witness ==
    /\ variant = "axis"
    /\ pc = "exited"
    /\ exitPath = "setup_failure"
    /\ uncaught = "RuntimeError"
    /\ resolves = 1

\* C14: for every enumeration, find_stm32_port (either copy) returns the node
\* of the first entry whose vendor and product attributes are both present and
\* equal to ('0483', '5740'), skipping entries that lack an attribute, and
\* raises exactly when no entry matches (the empty enumeration included).
C14_FirstMatch ==
    port # -1 =>
        LET M == {i \in 1..Len(devices) :
                     devices[i].vendor = "0483" /\ devices[i].model = "5740"}
        IN  IF M = {} THEN port = 0
            ELSE port \in M /\ \A j \in M : port <= j

\* an entry without vendor attribute, then the first match, then a second match
C14_Witness ==
    /\ Len(devices) = 3
    /\ devices[1] = [vendor |-> "absent", model |-> "5740"]
    /\ devices[2] = [vendor |-> "0483", model |-> "5740"]
    /\ devices[3] = [vendor |-> "0483", model |-> "5740"]
    /\ port = 2

(***************************************************************************)
(* The receiver's view of a frame: a 12-byte little-endian record          *)
(* {int32, float32, float32}.                                              *)
(***************************************************************************)

\* a little-endian int32
DecodeInt32LE(b) ==
    IF b[4] >= 128
    THEN (b[4] - 256) * 16777216 + b[3] * 65536 + b[2] * 256 + b[1]
    ELSE b[4] * 16777216 + b[3] * 65536 + b[2] * 256 + b[1]

\* m / 2^k with the common factors of two removed: << m, k >>
RECURSIVE Reduce(_, _)
Reduce(m, k) == IF k > 0 /\ m % 2 = 0 THEN Reduce(m \div 2, k - 1) ELSE << m, k >>

\* a little-endian float32 as a number of hundredths: << TRUE, h >> when the
\* value is h / 100 with h an integer of magnitude at most 100000, << FALSE, 0 >>
\* for every other value
DecodeFloat32LE(b) ==
    LET sgn  == b[4] \div 128
        E    == (b[4] % 128) * 2 + (b[3] \div 128)
        frac == (b[3] % 128) * 65536 + b[2] * 256 + b[1]
        m    == 8388608 + frac
    IN  IF E = 0 THEN (IF frac = 0 THEN << TRUE, 0 >> ELSE << FALSE, 0 >>)
        ELSE IF E = 255 \/ E > 160 THEN << FALSE, 0 >>
        ELSE IF E >= 150
             THEN LET red == Reduce(m, 23)
                  IN  IF red[2] = 0 /\ E - 127 <= 9
                      THEN << TRUE, (IF sgn = 1 THEN -1 ELSE 1)
                                        * red[1] * Pow2(E - 127) * 100 >>
                      ELSE << FALSE, 0 >>
        ELSE LET red == Reduce(m, 150 - E)
             IN  \* value = red[1] / 2^red[2]
                 IF red[2] <= 2 /\ red[1] < 4000
                 THEN << TRUE, (IF sgn = 1 THEN -1 ELSE 1)
                                   * ((red[1] * 100) \div Pow2(red[2])) >>
                 ELSE << FALSE, 0 >>

\* C15: the frame send_data produces is a 12-byte little-endian record, int32
\* address then float32 left then float32 right, and decoding it as such gives
\* back the address and the two velocities that were encoded.
C15_LittleEndianRoundTrip ==
    wire # << >> =>
        /\ Len(wire) = 12
        /\ DecodeInt32LE(SubSeq(wire, 1, 4)) = frameIn[1]
        /\ DecodeFloat32LE(SubSeq(wire, 5, 8)) = << TRUE, frameIn[2] >>
        /\ DecodeFloat32LE(SubSeq(wire, 9, 12)) = << TRUE, frameIn[3] >>
        /\ frameIn = << 1, 100, -100 >> =>
               wire = << 1, 0, 0, 0, 0, 0, 128, 63, 0, 0, 128, 191 >>

\* C16: within a tick the write comes last: nothing is handed to ser.write
\* while the input of the tick is polled and the state is updated; a tick that
\* has run to its end has handed over exactly one frame, and that frame carries
\* the state as it is after that tick's input: the address after this tick's
\* cycle triggers, and the velocities of this tick's intents (key variant) or of
\* this tick's axis readings (axis variant).
C16_TickOrder ==
    LET B(x) == IF x THEN 1 ELSE 0
        dz(v) == IF -10 < v /\ v < 10 THEN 0 ELSE v
        now  == IF variant = "key"
                THEN << triggers % 4,
                        100 * (B(forward) - B(backward)) + 50 * (B(right) - B(left)),
                        100 * (B(forward) - B(backward)) + 50 * (B(left) - B(right)) >>
                ELSE << triggers % 4,
                        dz(0 - rawY) + dz(rawX),
                        dz(0 - rawY) - dz(rawX) >>
    IN  /\ pc \in {"events", "button", "remember", "send"} => sent = << >>
        /\ sent # << >> => sent = << now >>
        /\ pc = "print" => Len(sent) = 1
        /\ (pc = "loop" /\ lastPrint # "none") => Len(sent) = 1
        /\ (pc = "loop" /\ lastPrint = "none") => sent = << >>

\* axis variant: the button edge was seen in the tick that has just ended, and
\* the frame of that same tick carries the new address 1
C16_Witness ==
    /\ variant = "axis"
    /\ pc = "loop"
    /\ x_button_state /\ ~prevSample
    /\ triggers = 1
    /\ rawY = -100 /\ rawX = 0
    /\ sent = << << 1, 100, 100 >> >>

\* C17: key variant: each directional intent is true exactly when the most
\* recent press or release handled on either of its two keys (arrow or letter)
\* was a press, and false when no such event was handled yet; an event on the
\* keys of one intent leaves the three other intents as they are.
C17_IntentFollowsLastEvent ==
    variant = "key" =>
        /\ forward  = lastPress[1]
        /\ backward = lastPress[2]
        /\ left     = lastPress[3]
        /\ right    = lastPress[4]

\* all four intents are held at once, opposing ones included
C17_Witness ==
    /\ variant = "key"
    /\ pc = "loop"
    /\ forward /\ backward /\ left /\ right
    /\ lastPress = << TRUE, TRUE, TRUE, TRUE >>

\* C18: key variant: once the events of a tick have been handled the
\* velocities are derived afresh from (0, 0) and depend on the intents that are
\* set at that moment only: they are the sum of the contributions of the set
\* intents however many ticks those have been held (nothing accumulates from
\* tick to tick), and an intent pressed and released again within the batch of
\* the tick contributes nothing.
C18_DerivedFromCurrentIntents ==
    (variant = "key" /\ pc \in {"send", "print", "loop"}) =>
        LET c(i, on) == IF ~on THEN << 0, 0 >>
                        ELSE CASE i = 1 -> << 100, 100 >>
                               [] i = 2 -> << -100, -100 >>
                               [] i = 3 -> << -50, 50 >>
                               [] i = 4 -> << 50, -50 >>
            held == {i \in 1..4 : intents[i]}
        IN  /\ vl = c(1, forward)[1] + c(2, backward)[1] + c(3, left)[1] + c(4, right)[1]
            /\ vr = c(1, forward)[2] + c(2, backward)[2] + c(3, left)[2] + c(4, right)[2]
            /\ (held = {} /\ pressed # {}) => velocity = << 0, 0 >>
            /\ (held = {1} /\ pressed = {}) => velocity = << 100, 100 >>

\* forward was pressed and released within the batch of the tick that has
\* just ended: the frame of that tick carries (0, 0)
C18_Witness ==
    /\ variant = "key"
    /\ pc = "loop"
    /\ pressed = {1}
    /\ intents = << FALSE, FALSE, FALSE, FALSE >>
    /\ velocity = << 0, 0 >>
    /\ sent = << << 0, 0, 0 >> >>

\* C19: key variant: when the event loop meets a quit event (window close or
\* the escape key) process_input returns at once: the step leaves the intents,
\* the address and the velocities as they are and goes to the shutdown; from
\* then on no event is applied, the velocities are not derived again and
\* nothing is handed to ser.write, so the tick of the quit has no frame and no
\* stop frame follows; what earlier events of the same batch did to the state
\* is never transmitted.
C19_QuitReturnsAtOnce ==
    /\ [](exitPath = "quit" =>
            /\ variant = "key"
            /\ quitDelivered
            /\ pc \in {"finally", "close", "return", "exited"}
            /\ sent = << >>)
    /\ [][exitPath' = "quit" =>
            /\ robot_id' = robot_id
            /\ intents' = intents
            /\ velocity' = velocity
            /\ triggers' = triggers
            /\ lastPress' = lastPress
            /\ sent' = sent
            /\ exitPath # "quit" => (pc = "events" /\ pc' = "finally"
                                      /\ remaining' = remaining - 1)]_vars

\* forward was pressed in the batch that held the quit event: the intent is
\* set, the velocities were never derived from it, no frame was written and
\* the program has ended
C19_Witness ==
    /\ variant = "key"
    /\ exitPath = "quit"
    /\ pc = "exited"
    /\ ser = "closed"
    /\ pressed = {1}
    /\ forward
    /\ velocity = << 0, 0 >>
    /\ sent = << >>

\* C20: a frame is handed to ser.write only while the serial channel is open:
\* every step that writes finds the channel open and leaves it open; as long
\* as the channel has not been opened nothing was written, the loop runs only
\* with the channel open, and once the channel is closed the program has
\* ended, so no write follows the close.
C20_WritesOnlyWhileOpen ==
    /\ [](/\ ser = "none" => (sent = << >> /\ lastPrint = "none" /\ pc \notin LoopPcs)
          /\ pc \in LoopPcs => ser = "open"
          /\ ser = "closed" => (pc \in {"return", "exited"} /\ closeCalls = 1))
    /\ [][(sent' # sent /\ sent' # << >>) => (ser = "open" /\ ser' = "open")]_vars
    /\ [][ser = "closed" => (sent' = sent /\ ser' = "closed")]_vars

\* a frame was written successfully in the last tick, then the loop was left
\* and the channel closed
C20_Witness ==
    /\ pc = "exited"
    /\ ser = "closed"
    /\ closeCalls = 1
    /\ lastPrint = "sent"
    /\ Len(sent) = 1

=============================================================================
